---- MODULE Spec2Model ----
(***************************************************************************)
(* elib.daemon: Daemon.start / Daemon.stop / Daemon._terminate             *)
(* (lib/elib/daemon/__init__.py), modelled as a system of POSIX processes  *)
(* that share one pid file.  Every process is an invocation of a program   *)
(* that constructs a Daemon on the same pid-file path and calls start or   *)
(* stop, or a child forked by start.  One action is one system call (or    *)
(* one library statement) of one process, so that the calls of different   *)
(* processes interleave as the operating system lets them.                 *)
(***************************************************************************)
EXTENDS Integers, Sequences, FiniteSets, TLC

\* ------------------------------------------------------------------ bounds
\* Number of programs that call start on the pid-file path.
MaxStarts == 2
\* Number of times in a row the program that calls stop calls it.
MaxStopCalls == 2
\* The process ids in use are BasePid+1 and up, so that one- and two-digit
\* process ids both occur; BasePid itself is the invoking shell.
BasePid == 7
\* Number of SIGHUPs an operator sends to a daemon.
MaxHups == 2
\* Number of lines a daemon writes to its standard output.
MaxLines == 1

\* ------------------------------------------------------- program constants
UMASK == 0
MAXFD == 2048
EX_OK == 0
EX_OSERR == 71
\* resource.RLIM_INFINITY
RLIM_INFINITY == 0 - 1

\* A program that calls start has process id r; the kernel gives r+1 to the
\* child of its first fork and r+2 to the child of its second fork.
StartRoots == {BasePid + 3 * (i - 1) + 1 : i \in 1..MaxStarts}
\* the program that calls stop
StopPid == BasePid + 3 * MaxStarts + 1
Pids == (BasePid + 1)..StopPid
ShellPid == BasePid
\* "no value" for a parent, a configured uid/gid or a read pid
None == 0 - 1000
\* self.pidfile: the one path every Daemon of the model is constructed with
PidPath == "pidfile"
Absent == <<"ENOENT">>

\* ------------------------------------------------- str() and int() on pids
Digits == <<"0", "1", "2", "3", "4", "5", "6", "7", "8", "9">>
IsDigit(c) == \E i \in 1..10 : Digits[i] = c
DigitVal(c) == (CHOOSE i \in 1..10 : Digits[i] = c) - 1
IsSpace(c) == c \in {" ", "\n", "\t"}

RECURSIVE NatStr(_)
NatStr(n) ==
    IF n < 10 THEN <<Digits[n + 1]>>
    ELSE NatStr(n \div 10) \o <<Digits[(n % 10) + 1]>>

\* str(os.getpid())
Str(n) == IF n < 0 THEN <<"-">> \o NatStr(0 - n) ELSE NatStr(n)

RECURSIVE LStrip(_)
LStrip(s) == IF s # <<>> /\ IsSpace(Head(s)) THEN LStrip(Tail(s)) ELSE s
RECURSIVE RStrip(_)
RStrip(s) ==
    IF s # <<>> /\ IsSpace(s[Len(s)]) THEN RStrip(SubSeq(s, 1, Len(s) - 1)) ELSE s
\* f.read().strip()
Strip(s) == RStrip(LStrip(s))

RECURSIVE DigitsVal(_)
DigitsVal(s) ==
    IF s = <<>> THEN 0
    ELSE 10 * DigitsVal(SubSeq(s, 1, Len(s) - 1)) + DigitVal(s[Len(s)])

AllDigits(s) == s # <<>> /\ \A i \in 1..Len(s) : IsDigit(s[i])

\* int(text): [ok |-> FALSE] stands for ValueError
ParseInt(text) ==
    LET s == Strip(text)
        signed == s # <<>> /\ Head(s) \in {"-", "+"}
        body == IF signed THEN LStrip(Tail(s)) ELSE s
    IN  IF AllDigits(body)
        THEN [ok |-> TRUE,
              val |-> IF signed /\ Head(s) = "-" THEN 0 - DigitsVal(body)
                      ELSE DigitsVal(body)]
        ELSE [ok |-> FALSE, val |-> None]

\* --------------------------------------------------------------- the state
VARIABLES
    proc,      \* process table: pid -> process (pc = "none": pid not in use)
    pidfile,   \* content of the file at self.pidfile, or Absent
    pidperm,   \* "rw"; "w": open() for reading raises IOError; "none": every
               \* open() of the existing file raises IOError
    out        \* the lines of the log file, each the pid of its writer

vars == <<proc, pidfile, pidperm, out>>

SIGTERM == "SIGTERM"
SIGHUP == "SIGHUP"
SIGKILL == "SIGKILL"

\* the statements of start the surviving process runs after the second fork
AfterFork2 == {"writepid", "settle", "signals", "closefds"}
StopPcs == {"stop_check", "stop_read", "stop_kill"}
\* a process that is gone: it called _exit / sys.exit, or a signal killed it
DeadPcs == {"exited", "killed"}

Alive(p) == p \in Pids /\ proc[p].pc \notin (DeadPcs \cup {"none"})

\* __init__'s defaults: workdir '/', an existing directory; sigmap, user and
\* group None.  cb is what the caller's callbacks do, tty that a redirection
\* target is a terminal device, log that stdout and stderr name the log file
\* (they are both '/dev/null' otherwise).
Defaults ==
    [sigmap |-> "None", cb |-> "none", tty |-> FALSE, workdir |-> "dir",
     user |-> None, group |-> None, log |-> FALSE]

\* the configurations a Daemon is constructed with (__init__'s arguments):
\* sigmap None; a sigmap with a SIGTERM callback (which removes the pid file
\* and exits, or which raises); a sigmap with only a SIGHUP callback (which
\* returns, or which raises); a sigmap with an entry for SIGKILL.
Configs ==
    { Defaults,
      [Defaults EXCEPT !.sigmap = "term", !.cb = "cleanup", !.tty = TRUE],
      [Defaults EXCEPT !.sigmap = "term", !.cb = "raise"],
      [Defaults EXCEPT !.sigmap = "hup", !.cb = "return", !.log = TRUE],
      [Defaults EXCEPT !.sigmap = "hup", !.cb = "raise"],
      [Defaults EXCEPT !.sigmap = "kill", !.cb = "return"] }

\* configurations whose workdir argument is None, names nothing, or names a
\* file that is not a directory
BadWorkdirs ==
    {[Defaults EXCEPT !.workdir = w] : w \in {"None", "missing", "file"}}

\* the descriptors a program has open when it calls start, and the hard
\* limit resource.getrlimit(resource.RLIMIT_NOFILE)[1] reports: only the
\* standard streams; more below a finite limit; more, below and from MAXFD
\* on, with no limit
StdFds == {0, 1, 2}
PlainEnv == [fds |-> StdFds, maxfd |-> 64]
Envs ==
    { PlainEnv,
      [fds |-> StdFds \cup {3, 63}, maxfd |-> 64],
      [fds |-> StdFds \cup {3, MAXFD - 1, MAXFD}, maxfd |-> RLIM_INFINITY] }

\* signal dispositions of a program run from the shell: the default action
Signums == {SIGTERM, SIGHUP}
NoHandlers == [sig \in Signums |-> "SIG_DFL"]

NoProc ==
    [pc |-> "none", kind |-> "none", parent |-> None, sid |-> None, pgid |-> None,
     ctty |-> FALSE, uid |-> None, euid |-> None, gid |-> None, egid |-> None,
     umask |-> None, cwd |-> "none", fds |-> {}, maxfd |-> None,
     cfg |-> Defaults,
     handlers |-> NoHandlers, pending |-> {}, status |-> None, msg |-> <<"none">>,
     pidarg |-> None, done |-> <<>>,
     \* what the model records about the run, for the properties below:
     \* what the guard found in the pid file, that its os.kill(pid, 0)
     \* succeeded, that another start call ran meanwhile, the
     \* statement at which SIGTERM was delivered, that a caller's callback
     \* ran; for stop: the number of the call, what it read, whom it
     \* signalled, and that those the previous call signalled were gone
     \* when this call began
     found |-> "none", probe |-> FALSE, overlap |-> FALSE, sigat |-> "none", cbran |-> FALSE,
     calls |-> 0, saw |-> "none", sent |-> {}, gone |-> FALSE,
     \* the number of SIGHUPs delivered to the process, the step of start
     \* that failed in it, the descriptors it had open before the close
     \* loop, the length of the log file when it opened it, and the number
     \* of lines it has written to its standard output since
     hups |-> 0, failed |-> "none", had |-> {}, logat |-> None, wrote |-> 0]

\* the pid file an invocation may find: none, a mangled one, one left by a
\* daemon that is gone (with surrounding white space), an unreadable one
InitFiles ==
    { <<Absent, "rw">>,
      <<<<"x">>, "rw">>,
      <<<<" ">> \o Str(BasePid - 1) \o <<"\n">>, "rw">>,
      <<Str(BasePid - 1), "none">> }

\* the pid files a stop call may find besides: one that is write-only, and
\* ones that hold 0 or a negative number
MoreFiles ==
    { <<Str(BasePid - 1), "w">>,
      <<Str(0), "rw">>,
      <<Str(0 - 1), "rw">> }

Uids == {0, 1}
\* who runs which configuration with which descriptors open: root and an
\* ordinary user run the default one; root one that switches to the ordinary
\* user and group; the ordinary user one that switches to root, the ones
\* with a sigmap, and the ones whose workdir is not a directory
StartVariants ==
    {<<0, Defaults, PlainEnv>>}
    \cup {<<0, [Defaults EXCEPT !.user = 1, !.group = 1, !.log = TRUE], e>> : e \in Envs \ {PlainEnv}}
    \cup {<<1, [Defaults EXCEPT !.user = 0], PlainEnv>>}
    \cup {<<1, cfg, PlainEnv>> : cfg \in Configs \cup BadWorkdirs}

\* lines 53-120: a program run from the shell by user uid has constructed a
\* Daemon (pidfile = PidPath, configuration cfg) and is about to call start
\* or stop.  It leads its own process group in the shell's session and has
\* the terminal.
Program(p, kind, uid, cfg) ==
    [NoProc EXCEPT !.pc = IF kind = "start" THEN "guard" ELSE "stop_check",
                   !.kind = kind, !.parent = 0, !.sid = ShellPid, !.pgid = p,
                   !.ctty = TRUE, !.uid = uid, !.euid = uid, !.gid = uid,
                   !.egid = uid, !.umask = 18,
                   !.cwd = "cwd", !.cfg = cfg, !.fds = StdFds, !.maxfd = PlainEnv.maxfd,
                   !.calls = IF kind = "stop" THEN 1 ELSE 0]

\* the same program before it has constructed its Daemon, with the
\* descriptors of env open
Unbuilt(p, uid, cfg, env) ==
    [Program(p, "start", uid, cfg) EXCEPT
        !.pc = "construct", !.fds = env.fds, !.maxfd = env.maxfd]

\* The programs of the model: those of starts call start (who runs which
\* configuration is drawn from variants), and stopper tells whether the
\* program that calls stop is there.
Programs(starts, variants, stopper) ==
    \E v \in [starts -> variants], u \in Uids :
        proc = [p \in Pids |->
                  IF p \in starts THEN Program(p, "start", v[p][1], v[p][2])
                  ELSE IF stopper /\ p = StopPid THEN Program(p, "stop", u, NoProc.cfg)
                  ELSE NoProc]

\* what the log file holds before any program of the model runs: a line of
\* an earlier run
OldLog == <<ShellPid>>

\* one program constructs a Daemon and calls start, one calls stop
Init ==
    /\ \E v \in StartVariants, u \in Uids :
          proc = [p \in Pids |->
                    IF p = BasePid + 1 THEN Unbuilt(p, v[1], v[2], v[3])
                    ELSE IF p = StopPid THEN Program(p, "stop", u, Defaults)
                    ELSE NoProc]
    /\ \E f \in InitFiles \cup MoreFiles : pidfile = f[1] /\ pidperm = f[2]
    /\ out = OldLog

\* MaxStarts programs call start, each run by root or by an ordinary user
\* with the default configuration; none calls stop
InitRace ==
    /\ Programs(StartRoots, {<<u, NoProc.cfg>> : u \in Uids}, FALSE)
    /\ \E f \in InitFiles : pidfile = f[1] /\ pidperm = f[2]
    /\ out = OldLog

\* ------------------------------------------------------------ os.kill(pid, sig)
\* kill(2): the processes a pid argument names
KillNamed(s, n) ==
    IF n > 0 THEN {t \in Pids : t = n /\ Alive(t)}
    ELSE IF n = 0 THEN {t \in Pids : Alive(t) /\ proc[t].pgid = proc[s].pgid}
    ELSE IF n = 0 - 1 THEN {t \in Pids : Alive(t) /\ t # s}
    ELSE {t \in Pids : Alive(t) /\ proc[t].pgid = 0 - n}

\* kill(2): the sender is privileged, or its real or effective uid is the
\* target's real (= saved) uid
MaySignal(s, t) ==
    \/ proc[s].euid = 0
    \/ proc[s].uid = proc[t].uid
    \/ proc[s].euid = proc[t].uid

\* the processes os.kill(n, sig) reaches; {} is OSError (ESRCH or EPERM)
KillTargets(s, n) == {t \in KillNamed(s, n) : MaySignal(s, t)}

\* ------------------------------------------------------------- ways to leave
\* os._exit(status), or sys.exit(status): the process is gone
Exited(r, status, msg) ==
    [r EXCEPT !.pc = "exited", !.status = status, !.msg = msg, !.pending = {}]

\* sys.exit(message): SystemExit with a string prints it and exits with 1
SysExit(r, msg) == Exited(r, 1, msg)

\* an exception that start or stop does not catch leaves the call
Raised(r, exc) == [r EXCEPT !.pc = "raised", !.msg = <<exc>>]

\* the default disposition of SIGTERM and SIGHUP ends the process
Killed(r, sig) ==
    [r EXCEPT !.pc = "killed", !.msg = <<"signal", sig>>, !.pending = {}]

\* the statement of start that did not succeed in the process
Fail(r, step) == [r EXCEPT !.failed = step]

Step(p, r) == proc' = [proc EXCEPT ![p] = r]
Goto(p, pc) == Step(p, [proc[p] EXCEPT !.pc = pc])

\* ----------------------------------------------------------- Daemon.__init__
\* (mutation of Construct: workdir is not looked at)
ConstructUnchecked(p) ==
    /\ proc[p].pc = "construct"
    /\ Goto(p, "guard")
    /\ UNCHANGED <<pidfile, pidperm, out>>

\* lines 85-120: pidfile is never None in the model; lines 90-93: sys.exit
\* when workdir is None or os.path.isdir(workdir) is false; the other
\* arguments are stored.  The program calls start next.
Construct(p) ==
    /\ proc[p].pc = "construct"
    /\ IF proc[p].cfg.workdir # "dir"
       THEN Step(p, SysExit(proc[p], <<"Error: workdir does not exist",
                                       proc[p].cfg.workdir>>))
       ELSE Goto(p, "guard")
    /\ UNCHANGED <<pidfile, pidperm, out>>

\* -------------------------------------------------------------- Daemon.start
\* open(self.pidfile, 'rb'); int(f.read().strip()):
\* "IOError", "ValueError", or the integer read
ReadPid ==
    IF pidfile = Absent \/ pidperm # "rw" THEN [exc |-> "IOError", val |-> None]
    ELSE IF ~ParseInt(pidfile).ok THEN [exc |-> "ValueError", val |-> None]
    ELSE [exc |-> "none", val |-> ParseInt(pidfile).val]

\* os.kill(pid, 0) does not raise
ProbeLive(p) == ReadPid.exc = "none" /\ KillTargets(p, ReadPid.val) # {}

\* the processes of the start calls that have begun and are still alive
Started == {q \in Pids : Alive(q) /\ proc[q].kind = "start" /\ proc[q].pc # "guard"}

\* what the pid file holds when the guard runs
Found ==
    IF pidfile = Absent THEN "absent"
    ELSE IF ~ParseInt(pidfile).ok THEN "mangled"
    ELSE IF ParseInt(pidfile).val <= 0 THEN "nopid"
    ELSE IF Alive(ParseInt(pidfile).val) THEN "live"
    ELSE "stale"

\* the guard's bookkeeping: p has run the guard and is now r
Guarded(p, r) ==
    proc' = [q \in Pids |->
               IF q = p THEN [r EXCEPT !.overlap = (Started # {}), !.found = Found,
                                       !.probe = ProbeLive(p)]
               ELSE IF q \in Started THEN [proc[q] EXCEPT !.overlap = TRUE]
               ELSE proc[q]]

\* (mutation of Guard: every pid file that holds a number is taken for a
\* running daemon's)
GuardTrustsFile(p) ==
    /\ proc[p].pc = "guard"
    /\ IF ReadPid.exc = "none"
       THEN Guarded(p, Exited(proc[p], EX_OSERR,
                              <<"Already running as">> \o Str(ReadPid.val)))
       ELSE Guarded(p, [proc[p] EXCEPT !.pc = "fork1"])
    /\ UNCHANGED <<pidfile, pidperm, out>>

\* (mutation of Guard: "bail out, pid lives" is missing)
GuardIgnoresProbe(p) ==
    /\ proc[p].pc = "guard"
    /\ Guarded(p, [proc[p] EXCEPT !.pc = "fork1"])
    /\ UNCHANGED <<pidfile, pidperm, out>>

\* lines 135-151: the singleton guard, the first statements of start.
\* overlap records, in every process of a start call, that another start
\* call's process was alive while this call ran.
Guard(p) ==
    /\ proc[p].pc = "guard"
    /\ IF ProbeLive(p)
       THEN Guarded(p, Exited(proc[p], EX_OSERR,
                              <<"Already running as">> \o Str(ReadPid.val)))
       ELSE Guarded(p, [proc[p] EXCEPT !.pc = "fork1"])
    /\ UNCHANGED <<pidfile, pidperm, out>>

\* the statements of start a process has completed, in order
Did(r, steps) == [r EXCEPT !.done = @ \o steps]

\* os.fork() in process p, after steps: the child is a copy of p that
\* continues at pc child; p continues at pc parent.  Pending signals are not
\* inherited.
Fork(p, parent, child, steps) ==
    /\ LET c == p + 1
           r == Did(proc[p], steps)
       IN  proc' = [proc EXCEPT
                      ![p] = [r EXCEPT !.pc = parent],
                      ![c] = [r EXCEPT !.pc = child, !.parent = p, !.pending = {}]]

\* lines 153-165: os.makedirs for the missing directories (OSError leaves
\* start), then the first fork; a failed fork -> os._exit(os.EX_OSERR)
Fork1(p) ==
    /\ proc[p].pc = "fork1"
    /\ \/ Fork(p, "exit1", "setsid", <<"makedirs", "fork1">>)
       \/ Step(p, Raised(Fail(proc[p], "makedirs"), "OSError"))
       \/ Step(p, Exited(Fail(Did(proc[p], <<"makedirs">>), "fork1"),
                          EX_OSERR, <<"First fork failed">>))
    /\ UNCHANGED <<pidfile, pidperm, out>>

\* (mutation of Exit1: the parent of the first fork goes on instead of exiting)
Exit1Skipped(p) ==
    /\ proc[p].pc = "exit1"
    /\ Goto(p, "setsid")
    /\ UNCHANGED <<pidfile, pidperm, out>>

\* line 161: os._exit(os.EX_OK) in the parent of the first fork
Exit1(p) ==
    /\ proc[p].pc = "exit1"
    /\ Step(p, Exited(proc[p], EX_OK, <<"parent of first fork">>))
    /\ UNCHANGED <<pidfile, pidperm, out>>

\* line 170: os.setsid() raises OSError (EPERM) in a process group leader;
\* otherwise the caller leads a new session and group, without a terminal
SetSid(p) ==
    /\ proc[p].pc = "setsid"
    /\ IF proc[p].pgid = p
       THEN Step(p, Raised(proc[p], "OSError"))
       ELSE Step(p, [Did(proc[p], <<"setsid">>) EXCEPT
                        !.pc = "fork2", !.sid = p, !.pgid = p, !.ctty = FALSE])
    /\ UNCHANGED <<pidfile, pidperm, out>>

\* (mutation of Fork2: no second fork, the session leader goes on)
Fork2NoFork(p) ==
    /\ proc[p].pc = "fork2"
    /\ Step(p, [Did(proc[p], <<"fork2">>) EXCEPT !.pc = "writepid"])
    /\ UNCHANGED <<pidfile, pidperm, out>>

\* lines 172-186: second fork
Fork2(p) ==
    /\ proc[p].pc = "fork2"
    /\ \/ Fork(p, "exit2", "writepid", <<"fork2">>)
       \/ Step(p, Exited(Fail(proc[p], "fork2"), EX_OSERR, <<"Second fork failed">>))
    /\ UNCHANGED <<pidfile, pidperm, out>>

\* line 182: os._exit(os.EX_OK) in the parent of the second fork
Exit2(p) ==
    /\ proc[p].pc = "exit2"
    /\ Step(p, Exited(proc[p], EX_OK, <<"parent of second fork">>))
    /\ UNCHANGED <<pidfile, pidperm, out>>

\* (mutation of WritePid: os.getppid() is written)
WritePidOfParent(p) ==
    /\ proc[p].pc = "writepid"
    /\ IF pidfile # Absent /\ pidperm = "none"
       THEN Step(p, Raised(proc[p], "IOError")) /\ UNCHANGED <<pidfile, pidperm, out>>
       ELSE /\ Step(p, [Did(proc[p], <<"writepid">>) EXCEPT !.pc = "settle"])
            /\ pidfile' = Str(proc[p].parent)
            /\ pidperm' = (IF pidfile = Absent THEN "rw" ELSE pidperm)
            /\ UNCHANGED out

\* lines 188-190: open(self.pidfile, 'wb') truncates or creates the file,
\* or raises IOError; f.write(str(os.getpid()))
WritePid(p) ==
    /\ proc[p].pc = "writepid"
    /\ IF pidfile # Absent /\ pidperm = "none"
       THEN /\ Step(p, Raised(Fail(proc[p], "writepid"), "IOError"))
            /\ UNCHANGED <<pidfile, pidperm, out>>
       ELSE /\ Step(p, [Did(proc[p], <<"writepid">>) EXCEPT !.pc = "settle"])
            /\ pidfile' = Str(p)
            /\ pidperm' = (IF pidfile = Absent THEN "rw" ELSE pidperm)
            /\ UNCHANGED out

\* setegid(2): a privileged process may take any group id, another one only
\* its real (= saved) group id
MaySetEgid(r, gid) == r.euid = 0 \/ gid = r.gid
\* seteuid(2), likewise
MaySetEuid(r, uid) == r.euid = 0 \/ uid = r.uid

\* (mutation of Settle: the effective user is switched before the group)
SettleUserFirst(p) ==
    /\ proc[p].pc = "settle"
    /\ LET cfg == proc[p].cfg
           u == [Did(proc[p], <<"umask">>) EXCEPT !.umask = UMASK]
           c == [Did(u, <<"chdir">>) EXCEPT !.cwd = "workdir"]
           e == IF cfg.user = None THEN c
                ELSE [Did(c, <<"seteuid">>) EXCEPT !.euid = cfg.user]
           g == IF cfg.group = None THEN e
                ELSE [Did(e, <<"setegid">>) EXCEPT !.egid = cfg.group]
       IN  \/ Step(p, Raised(Fail(u, "chdir"), "OSError"))
           \/ IF cfg.user # None /\ ~MaySetEuid(c, cfg.user)
              THEN Step(p, Raised(Fail(c, "seteuid"), "OSError"))
              ELSE IF cfg.group # None /\ ~MaySetEgid(e, cfg.group)
              THEN Step(p, Raised(Fail(e, "setegid"), "OSError"))
              ELSE Step(p, [g EXCEPT !.pc = "signals"])
    /\ UNCHANGED <<pidfile, pidperm, out>>

\* lines 192-208: os.umask(UMASK); os.chdir(self.workdir), OSError when the
\* directory is gone by now; os.setegid(self.gid) when self.gid is not None,
\* then os.seteuid(self.uid) when self.uid is not None, each OSError (EPERM)
\* when the process may not take the id
Settle(p) ==
    /\ proc[p].pc = "settle"
    /\ LET cfg == proc[p].cfg
           u == [Did(proc[p], <<"umask">>) EXCEPT !.umask = UMASK]
           c == [Did(u, <<"chdir">>) EXCEPT !.cwd = "workdir"]
           g == IF cfg.group = None THEN c
                ELSE [Did(c, <<"setegid">>) EXCEPT !.egid = cfg.group]
           e == IF cfg.user = None THEN g
                ELSE [Did(g, <<"seteuid">>) EXCEPT !.euid = cfg.user]
       IN  \/ Step(p, Raised(Fail(u, "chdir"), "OSError"))
           \/ IF cfg.group # None /\ ~MaySetEgid(c, cfg.group)
              THEN Step(p, Raised(Fail(c, "setegid"), "OSError"))
              ELSE IF cfg.user # None /\ ~MaySetEuid(g, cfg.user)
              THEN Step(p, Raised(Fail(g, "seteuid"), "OSError"))
              ELSE Step(p, [e EXCEPT !.pc = "signals"])
    /\ UNCHANGED <<pidfile, pidperm, out>>

\* (mutation of Sigmap: the default SIGTERM entry is added to every sigmap
\* that has none)
SigmapWithDefault(cfg) ==
    IF cfg.sigmap = "None" THEN {<<SIGTERM, "_terminate">>}
    ELSE IF cfg.sigmap = "term" THEN {<<SIGTERM, "callback">>}
    ELSE IF cfg.sigmap = "hup" THEN {<<SIGHUP, "callback">>, <<SIGTERM, "_terminate">>}
    ELSE {<<SIGKILL, "callback">>, <<SIGTERM, "_terminate">>}

\* lines 95-98: self.sigmap is {SIGTERM: self._terminate} when the sigmap
\* argument is None, and the caller's dictionary otherwise
Sigmap(cfg) ==
    IF cfg.sigmap = "None" THEN {<<SIGTERM, "_terminate">>}
    ELSE IF cfg.sigmap = "term" THEN {<<SIGTERM, "callback">>}
    ELSE IF cfg.sigmap = "hup" THEN {<<SIGHUP, "callback">>}
    ELSE {<<SIGKILL, "callback">>}

\* (mutation of Signals: the pid file is removed when signal.signal raises)
SignalsRollBack(p) ==
    /\ proc[p].pc = "signals"
    /\ IF \E e \in Sigmap(proc[p].cfg) : e[1] \notin Signums
       THEN /\ Step(p, Raised(Fail(proc[p], "signals"), "RuntimeError"))
            /\ pidfile' = Absent
            /\ UNCHANGED <<pidperm, out>>
       ELSE /\ Step(p, [Did(proc[p], <<"signals">>) EXCEPT !.pc = "closefds"])
            /\ UNCHANGED <<pidfile, pidperm, out>>

\* lines 210-212: signal.signal(signum, callback) for each entry of
\* self.sigmap; signal.signal raises for a signal that cannot be caught
Signals(p) ==
    /\ proc[p].pc = "signals"
    /\ LET m == Sigmap(proc[p].cfg)
           h == [sig \in Signums |->
                    IF \E e \in m : e[1] = sig
                    THEN (CHOOSE e \in m : e[1] = sig)[2]
                    ELSE proc[p].handlers[sig]]
       IN  IF \E e \in m : e[1] \notin Signums
           THEN Step(p, Raised(Fail(proc[p], "signals"), "RuntimeError"))
           ELSE Step(p, [Did(proc[p], <<"signals">>) EXCEPT
                           !.pc = "closefds", !.handlers = h])
    /\ UNCHANGED <<pidfile, pidperm, out>>

\* open(2) of a terminal device by a session leader that has no controlling
\* terminal makes the device its controlling terminal
OpenTarget(r, pid) ==
    IF r.cfg.tty /\ r.sid = pid /\ ~r.ctty THEN [r EXCEPT !.ctty = TRUE] ELSE r

\* (mutation of Limit: no fallback for an unlimited hard limit)
LimitAsReported(r) == r.maxfd

\* lines 216-219: maxfd is the hard limit, or MAXFD when that is RLIM_INFINITY
Limit(r) == IF r.maxfd = RLIM_INFINITY THEN MAXFD ELSE r.maxfd

\* line 222: the descriptors of sys.stdin, sys.stdout and sys.stderr
\* (self.stdin, self.stdout and self.stderr are file names: no fileno)
Exclude == StdFds

\* lines 223-230: os.close(fd) for fd in reversed(range(maxfd)) that is not
\* excluded; EBADF for a descriptor that is not open is passed over, so the
\* loop closes the open ones among them
Closable(r) == {fd \in r.fds : fd \in 0..(Limit(r) - 1) /\ fd \notin Exclude}

\* (mutation of Open: every mode truncates)
OpenTruncates(content, mode) == <<>>

\* open(name, mode) of an ordinary file: what the file holds afterwards
Open(content, mode) == IF mode \in {"w", "wb", "w+"} THEN <<>> ELSE content

\* lines 214-252: the close loop (a close error other than EBADF at
\* descriptor k, after the higher ones are closed, ends the process with
\* os._exit(os.EX_OSERR)), then for each standard stream: open the target
\* (IOError leaves start; stdout and stderr are opened with mode "a+"), close
\* the descriptor, dup2 the new one onto it.  After the last statement start
\* returns.
CloseRedirect(p) ==
    /\ proc[p].pc = "closefds"
    /\ LET r == [proc[p] EXCEPT !.had = proc[p].fds]
           c == [Did(r, <<"closefds">>) EXCEPT !.fds = r.fds \ Closable(r)]
           i == Did(OpenTarget(c, p), <<"stdin">>)
           log == IF r.cfg.log THEN Open(out, "a+") ELSE out
           o == [Did(i, <<"stdout">>) EXCEPT
                    !.logat = IF r.cfg.log THEN Len(log) ELSE None]
           e == Did(o, <<"stderr">>)
       IN  \/ Step(p, [e EXCEPT !.pc = "returned"]) /\ out' = log
           \/ \E k \in Closable(r) :
                 /\ Step(p, Exited(Fail([r EXCEPT !.fds = {fd \in r.fds :
                                             fd \notin Closable(r) \/ fd <= k}],
                                        "close"),
                                   EX_OSERR, <<"Failed to close file descriptor">>))
                 /\ UNCHANGED out
           \/ Step(p, Raised(Fail(c, "stdin"), "IOError")) /\ UNCHANGED out
           \/ Step(p, Raised(Fail(i, "stdout"), "IOError")) /\ UNCHANGED out
           \/ Step(p, Raised(Fail(o, "stderr"), "IOError")) /\ out' = log
    /\ UNCHANGED <<pidfile, pidperm>>

\* the daemon, after start has returned, writes a line to its standard
\* output: with O_APPEND the line goes to the end of the log file
Emit(p) ==
    /\ proc[p].pc = "returned"
    /\ proc[p].cfg.log
    /\ proc[p].wrote < MaxLines
    /\ Step(p, [proc[p] EXCEPT !.wrote = @ + 1])
    /\ out' = Append(out, p)
    /\ UNCHANGED <<pidfile, pidperm>>

\* --------------------------------------------------------------- Daemon.stop
\* lines 259-262: self.pidfile is never None (the constructor exits on it);
\* os.path.isfile(self.pidfile)
StopCheck(p) ==
    /\ proc[p].pc = "stop_check"
    /\ IF pidfile = Absent
       THEN Step(p, SysExit([proc[p] EXCEPT !.saw = "absent"],
                            <<"Error: pid file does not exist", PidPath>>))
       ELSE Goto(p, "stop_read")
    /\ UNCHANGED <<pidfile, pidperm, out>>

\* 'Error: mangled pidfile %s: %r' % self.pidfile: the % operator raises
\* TypeError when the format has more conversions than there are arguments
Format(msg, conversions, args) ==
    IF conversions = Len(args) THEN [exc |-> "none", msg |-> <<msg>> \o args]
    ELSE [exc |-> "TypeError", msg |-> <<>>]

\* (mutation of StopRead: IOError is passed over, as the guard of start does)
StopReadPasses(p) ==
    /\ proc[p].pc = "stop_read"
    /\ Step(p, [proc[p] EXCEPT !.pc = "stop_kill", !.saw = ReadPid.exc,
                               !.pidarg = ReadPid.val])
    /\ UNCHANGED <<pidfile, pidperm, out>>

\* lines 264-270: read the pid; IOError and ValueError each end in sys.exit
\* of a formatted message
StopRead(p) ==
    /\ proc[p].pc = "stop_read"
    /\ LET cant == Format("Error: can't open pidfile", 2, <<PidPath, "IOError">>)
           mangled == Format("Error: mangled pidfile", 2, <<PidPath>>)
           r == [proc[p] EXCEPT !.saw = ReadPid.exc]
       IN  IF ReadPid.exc = "IOError"
           THEN Step(p, SysExit(r, cant.msg))
           ELSE IF ReadPid.exc = "ValueError"
           THEN IF mangled.exc = "none"
                THEN Step(p, SysExit(r, mangled.msg))
                ELSE Step(p, Raised(r, mangled.exc))
           ELSE Step(p, [r EXCEPT !.pc = "stop_kill", !.saw = "number",
                                  !.pidarg = ReadPid.val])
    /\ UNCHANGED <<pidfile, pidperm, out>>

\* (mutation of StopKill: OSError is not caught)
StopKillRaises(p) ==
    /\ proc[p].pc = "stop_kill"
    /\ LET ts == KillTargets(p, proc[p].pidarg)
       IN  proc' = [q \in Pids |->
                      IF q = p /\ ts = {} THEN Raised(proc[q], "OSError")
                      ELSE IF q = p
                      THEN [proc[q] EXCEPT !.pc = "stop_returned", !.sent = ts]
                      ELSE IF q \in ts
                      THEN [proc[q] EXCEPT !.pending = @ \cup {SIGTERM}]
                      ELSE proc[q]]
    /\ UNCHANGED <<pidfile, pidperm, out>>

\* lines 272-276: os.kill(pid, signal.SIGTERM); OSError is ignored.  The
\* signal becomes pending in every process the call reaches; sent records them.
StopKill(p) ==
    /\ proc[p].pc = "stop_kill"
    /\ LET ts == KillTargets(p, proc[p].pidarg)
       IN  proc' = [q \in Pids |->
                      IF q = p /\ q \in ts
                      THEN [proc[q] EXCEPT !.pc = "stop_returned", !.sent = ts,
                                           !.pending = @ \cup {SIGTERM}]
                      ELSE IF q = p
                      THEN [proc[q] EXCEPT !.pc = "stop_returned", !.sent = ts]
                      ELSE IF q \in ts
                      THEN [proc[q] EXCEPT !.pending = @ \cup {SIGTERM}]
                      ELSE proc[q]]
    /\ UNCHANGED <<pidfile, pidperm, out>>

\* the program calls stop again after stop has returned; gone records that
\* the call before signalled the process the pid file named and that this
\* process is gone
StopAgain(p) ==
    /\ proc[p].pc = "stop_returned"
    /\ proc[p].calls < MaxStopCalls
    /\ Step(p, [proc[p] EXCEPT
                   !.pc = "stop_check", !.calls = @ + 1, !.pidarg = None,
                   !.saw = "none", !.sent = {},
                   !.gone = (proc[p].sent = {proc[p].pidarg} /\ ~Alive(proc[p].pidarg))])
    /\ UNCHANGED <<pidfile, pidperm, out>>

\* ------------------------------------------------------------ signal delivery
\* an operator sends SIGHUP to a process that has a callback for it
Hup(p) ==
    /\ Alive(p)
    /\ proc[p].handlers[SIGHUP] = "callback"
    /\ SIGHUP \notin proc[p].pending
    /\ proc[p].hups < MaxHups
    /\ Step(p, [proc[p] EXCEPT !.pending = @ \cup {SIGHUP}])
    /\ UNCHANGED <<pidfile, pidperm, out>>

\* (mutation of Terminate: the handler returns)
TerminateReturns(r, sig) == r

\* lines 278-279: Daemon._terminate, sys.exit('Terminating on signal %s' % signum)
Terminate(r, sig) == SysExit(r, <<"Terminating on signal", sig>>)

\* A pending signal is delivered to a live process.  With a handler
\* installed by signal.signal (lines 210-212) the callback of self.sigmap
\* runs: self._terminate, or the caller's callback, which returns, raises, or
\* removes the pid file and exits with 0.  Without one the default
\* disposition ends the process.
Deliver(p, sig) ==
    /\ Alive(p)
    /\ sig \in proc[p].pending
    /\ LET r == [proc[p] EXCEPT !.pending = @ \ {sig},
                                !.sigat = IF sig = SIGTERM THEN proc[p].pc ELSE @]
           ran == [r EXCEPT !.cbran = TRUE,
                            !.hups = IF sig = SIGHUP THEN @ + 1 ELSE @]
           h == r.handlers[sig]
       IN  IF h = "SIG_DFL"
           THEN Step(p, Killed(r, sig)) /\ UNCHANGED <<pidfile, pidperm, out>>
           ELSE IF h = "_terminate"
           THEN Step(p, Terminate(r, sig)) /\ UNCHANGED <<pidfile, pidperm, out>>
           ELSE IF r.cfg.cb = "raise"
           THEN Step(p, Raised(ran, "callback error")) /\ UNCHANGED <<pidfile, pidperm, out>>
           ELSE IF r.cfg.cb = "cleanup"
           THEN /\ Step(p, Exited(ran, EX_OK, <<"callback exit">>))
                /\ pidfile' = Absent
                /\ pidperm' = "rw"
                /\ UNCHANGED out
           ELSE Step(p, ran) /\ UNCHANGED <<pidfile, pidperm, out>>

\* ------------------------------------------------------------- specification
StartStep(p) ==
    \/ Guard(p)
    \/ Fork1(p)
    \/ Exit1(p)
    \/ SetSid(p)
    \/ Fork2(p)
    \/ Exit2(p)
    \/ WritePid(p)
    \/ Settle(p)
    \/ Signals(p)
    \/ CloseRedirect(p)

StopStep(p) ==
    \/ StopCheck(p)
    \/ StopRead(p)
    \/ StopKill(p)
    \/ StopAgain(p)

Next ==
    \E p \in Pids :
        \/ Construct(p)
        \/ StartStep(p)
        \/ StopStep(p)
        \/ Emit(p)
        \/ Hup(p)
        \/ \E sig \in Signums : Deliver(p, sig)

Spec == Init /\ [][Next]_vars

NextRace == \E p \in Pids : StartStep(p)

SpecRace == InitRace /\ [][NextRace]_vars

\* Spec with signals delivered fairly: a signal that is pending in a live
\* process is delivered to it in the end
SpecLive ==
    Spec /\ \A p \in Pids : WF_vars(\E sig \in Signums : Deliver(p, sig))

\* A script runs the programs one after the other, each when the one before
\* it has ended: start, stop, start again (and again); every Daemon is
\* constructed by the same ordinary user with the log file as stdout and
\* stderr, and the pid file is absent or left by a daemon that is gone.
InitCycle ==
    /\ proc = [p \in Pids |->
                 IF p \in StartRoots
                 THEN Program(p, "start", 1, [Defaults EXCEPT !.log = TRUE])
                 ELSE IF p = StopPid THEN Program(p, "stop", 1, Defaults)
                 ELSE NoProc]
    /\ \E f \in {<<Absent, "rw">>, <<Str(BasePid - 1), "rw">>} :
          pidfile = f[1] /\ pidperm = f[2]
    /\ out = OldLog

\* the script has come to program p: the first start program runs at once,
\* stop when it is gone, every further start program when the stop call has
\* ended and the start program before it is gone; the processes start forks
\* run as the kernel schedules them
Script(p) ==
    IF proc[p].parent # 0 \/ p = BasePid + 1 THEN TRUE
    ELSE IF p = StopPid THEN ~Alive(BasePid + 1)
    ELSE /\ proc[StopPid].pc \in {"stop_returned", "exited", "raised", "killed"}
         /\ \A q \in StartRoots : q < p => ~Alive(q)

NextCycle ==
    \E p \in Pids :
        \/ Script(p) /\ StartStep(p)
        \/ Script(p) /\ StopStep(p)
        \/ Emit(p)
        \/ \E sig \in Signums : Deliver(p, sig)

SpecCycle == InitCycle /\ [][NextCycle]_vars

\* ==================================================================== claims
Returned(p) == proc[p].pc = "returned"
Parent(p) == proc[p].parent
\* 0 for a program, 1 for the child of the first fork, 2 for the child of the
\* second fork
Gen(p) ==
    IF Parent(p) \notin Pids THEN 0
    ELSE IF Parent(Parent(p)) \notin Pids THEN 1
    ELSE 2
Ancestors(p) ==
    {q \in Pids : \/ q = Parent(p)
                  \/ Parent(p) \in Pids /\ q = Parent(Parent(p))}
Lineage(p) == {p} \cup Ancestors(p)
\* the processes whose fork has succeeded
Forked == {q \in Pids : q + 1 \in Pids /\ Parent(q + 1) = q}
\* the live processes that start has detached (the children of second forks)
Daemons == {p \in Pids : Alive(p) /\ proc[p].kind = "start" /\ Gen(p) = 2}
\* a stop call that has ended
StopEnded(s) == proc[s].kind = "stop" /\ proc[s].pc \in {"stop_returned", "exited", "raised"}

\* C1 (as stated): start returns only in the child of the second fork, and
\* when it has returned exactly one of the three processes of the call is alive.
C1_ExactlyOneAlive ==
    \A p \in Pids :
        Returned(p) =>
            /\ Gen(p) = 2
            /\ Cardinality({q \in Lineage(p) : Alive(q)}) = 1

\* C1 (amended): start returns only in the child of the second fork; a
\* process whose fork has succeeded never returns from start: its only
\* remaining statement is os._exit(os.EX_OK), so it is about to exit or gone
\* (with status 0 when it exited).
C1_OnlyGrandchildReturns ==
    /\ \A p \in Pids : Returned(p) => Gen(p) = 2
    /\ \A q \in Forked :
          /\ proc[q].pc \in {"exit1", "exit2"} \cup DeadPcs
          /\ proc[q].pc = "exited" => proc[q].status = EX_OK

C1_Witness ==
    \E p \in Pids :
        /\ Returned(p)
        /\ Cardinality(Ancestors(p)) = 2
        /\ \A q \in Ancestors(p) : proc[q].pc = "exited" /\ proc[q].status = EX_OK

\* C2: from the second fork on, and when start has returned, the surviving
\* process is not a session leader (its session is the one its parent
\* created) and has no controlling terminal.
C2_NotSessionLeader ==
    \A p \in Pids :
        proc[p].pc \in AfterFork2 \cup {"returned"} =>
            /\ proc[p].sid # p
            /\ proc[p].sid = Parent(p)
            /\ ~proc[p].ctty

C2_Witness ==
    \E p \in Pids :
        /\ Returned(p)
        /\ proc[p].cfg.tty
        /\ proc[p].sid = Parent(p)
        /\ ~proc[p].ctty

\* C3: with no other start call running on the pid-file path, when start has
\* returned the whole content of the pid file is the decimal process id of
\* the surviving process (reading it back gives that id), not an ancestor's.
C3_PidFileHoldsOwnPid ==
    \A p \in Pids :
        Returned(p) /\ ~proc[p].overlap =>
            /\ pidfile = Str(p)
            /\ ParseInt(pidfile) = [ok |-> TRUE, val |-> p]
            /\ \A q \in Ancestors(p) : ParseInt(pidfile).val # q

C3_Witness ==
    \E p \in Pids :
        /\ Returned(p)
        /\ ~proc[p].overlap
        /\ pidfile = Str(p)
        /\ \E q \in Pids \ Lineage(p) : proc[q].pc \in DeadPcs

\* C4 (as stated): a start call that finds in the pid file the process id of
\* a live process ends "already running" (os._exit(os.EX_OSERR)) and has
\* forked nothing.
C4_LiveDaemonBlocksStart ==
    \A p \in Pids :
        proc[p].found = "live" =>
            /\ proc[p].pc = "exited"
            /\ proc[p].status = EX_OSERR
            /\ p \notin Forked

\* C5 (as stated): at no time are two daemons started from the pid-file path
\* alive together.
C5_ExactlyOneDaemon == Cardinality(Daemons) <= 1

\* C5 (amended): the guard is best effort: a start call whose liveness probe
\* of the pid read from the pid file succeeds ends "already running" without
\* forking, and only such a call is stopped by the guard.
C5_ProbedStartNeverForks ==
    \A p \in Pids :
        /\ proc[p].probe =>
              /\ proc[p].pc = "exited"
              /\ proc[p].status = EX_OSERR
              /\ p \notin Forked
        /\ proc[p].kind = "start" /\ Gen(p) = 0 /\ ~proc[p].probe =>
              proc[p].pc \in {"guard", "fork1", "exit1", "raised"} \cup DeadPcs
              /\ (proc[p].pc = "exited" => Head(proc[p].msg) # "Already running as")

C5_Witness ==
    \E p \in Pids :
        /\ proc[p].probe
        /\ proc[p].pc = "exited"
        /\ \E d \in Daemons : Returned(d) /\ pidfile = Str(d) /\ d \notin Lineage(p)

\* C6 (as stated): when SIGTERM is delivered to a daemon in which start has
\* returned, the caller's termination callback is invoked if configured, the
\* pid file is deleted and the process exits with status 0.
C6_CleanShutdown ==
    \A p \in Pids :
        proc[p].sigat = "returned" =>
            /\ proc[p].cfg.sigmap = "term" => proc[p].cbran
            /\ pidfile = Absent
            /\ proc[p].pc = "exited"
            /\ proc[p].status = EX_OK

\* C7 (as stated): after start returns a handler for SIGTERM is installed in
\* every configuration, the default one when the sigmap is None or has no
\* SIGTERM entry.
C7_AlwaysTermHandler ==
    \A p \in Pids :
        Returned(p) =>
            /\ proc[p].handlers[SIGTERM] # "SIG_DFL"
            /\ proc[p].cfg.sigmap \in {"None", "hup"} =>
                  proc[p].handlers[SIGTERM] = "_terminate"

\* C7 (amended): after start returns the handlers installed are the entries
\* of the sigmap: _terminate for SIGTERM when the sigmap is None, the
\* caller's callbacks otherwise, and the default disposition for SIGTERM
\* when the caller's sigmap has no entry for it.
C7_HandlersAreSigmap ==
    \A p \in Pids :
        Returned(p) =>
            /\ proc[p].cfg.sigmap = "None" =>
                  proc[p].handlers = [NoHandlers EXCEPT ![SIGTERM] = "_terminate"]
            /\ proc[p].cfg.sigmap = "term" =>
                  proc[p].handlers = [NoHandlers EXCEPT ![SIGTERM] = "callback"]
            /\ proc[p].cfg.sigmap = "hup" =>
                  proc[p].handlers = [NoHandlers EXCEPT ![SIGHUP] = "callback"]

C7_Witness ==
    \E p \in Pids :
        /\ Returned(p)
        /\ proc[p].cfg.sigmap = "hup"
        /\ proc[p].handlers[SIGTERM] = "SIG_DFL"

\* C8 (as stated): a second stop call, made when the daemon the first call
\* signalled has exited, never ends in an error and signals no process.
C8_SecondStopNeverErrors ==
    \A s \in Pids :
        StopEnded(s) /\ proc[s].calls >= 2 /\ proc[s].gone =>
            /\ proc[s].pc = "stop_returned"
            /\ proc[s].sent = {}

\* C8 (amended): such a second stop call signals no process; it returns
\* without error when the pid file is still in place, and ends in the
\* "pid file does not exist" error exit when the pid file was removed at
\* termination.
C8_SecondStop ==
    \A s \in Pids :
        StopEnded(s) /\ proc[s].calls >= 2 /\ proc[s].gone =>
            /\ proc[s].sent = {}
            /\ proc[s].saw \in {"number", "absent"}
            /\ proc[s].saw = "number" => proc[s].pc = "stop_returned"
            /\ proc[s].saw = "absent" =>
                  /\ pidfile = Absent
                  /\ proc[s].pc = "exited"
                  /\ proc[s].msg = <<"Error: pid file does not exist", PidPath>>

C8_Witness ==
    \E s \in Pids :
        /\ StopEnded(s) /\ proc[s].calls >= 2 /\ proc[s].gone
        /\ proc[s].pc = "stop_returned"
        /\ proc[s].sent = {}
        /\ ParseInt(pidfile).ok
        /\ ParseInt(pidfile).val \in Pids
        /\ ~Alive(ParseInt(pidfile).val)

\* C9 (as stated): stop against a pid file whose content is not a number
\* ends in the error exit that names the mangled pid file, and signals no
\* process.
C9_MangledErrorExit ==
    \A s \in Pids :
        proc[s].saw = "ValueError" =>
            /\ proc[s].pc = "exited"
            /\ proc[s].msg = <<"Error: mangled pidfile", PidPath>>
            /\ proc[s].sent = {}

\* C10: stop called when the pid file is absent or cannot be read ends in
\* the error exit whose message names the pid file, signals no process, and
\* no statement of stop creates or changes the pid file.
C10_StopWithoutPidFile ==
    \A s \in Pids :
        /\ proc[s].saw = "absent" =>
              /\ proc[s].pc = "exited"
              /\ proc[s].status = 1
              /\ proc[s].msg = <<"Error: pid file does not exist", PidPath>>
              /\ proc[s].sent = {}
        /\ proc[s].saw = "IOError" =>
              /\ proc[s].pc = "exited"
              /\ proc[s].status = 1
              /\ Head(proc[s].msg) = "Error: can't open pidfile"
              /\ proc[s].msg[2] = PidPath
              /\ proc[s].sent = {}

\* C10: in every state a stop call that found the pid file absent or
\* unreadable has ended in the error exit naming the pid file with no signal
\* sent, and every step of a stop call leaves the pid file and its
\* permissions unchanged.
C10_NoSuchDaemon ==
    /\ []C10_StopWithoutPidFile
    /\ [][\A s \in Pids :
             proc[s].pc \in StopPcs /\ proc'[s] # proc[s] =>
                 UNCHANGED <<pidfile, pidperm, out>>]_vars

C10_Witness ==
    \E s \in Pids :
        /\ proc[s].saw = "IOError"
        /\ proc[s].pc = "exited"
        /\ pidfile # Absent
        /\ pidperm = "none"

\* C11: a program whose workdir argument is not an existing directory never
\* gets past the constructor: unless a signal kills it first, it ends in the
\* error exit of line 91 (status 1); it has forked nothing and has run no
\* statement of start; and the constructor changes neither the pid file nor
\* the log file nor any other process.
C11_BadWorkdirFails ==
    /\ [](\A p \in Pids :
            proc[p].cfg.workdir # "dir" =>
                /\ proc[p].pc \in {"construct", "exited", "killed"}
                /\ proc[p].pc = "exited" =>
                      /\ proc[p].status = 1
                      /\ Head(proc[p].msg) = "Error: workdir does not exist"
                /\ p \notin Forked
                /\ proc[p].done = <<>>)
    /\ [][\A p \in Pids :
             proc[p].pc = "construct" /\ proc'[p].pc \in {"guard", "exited"} =>
                 /\ UNCHANGED <<pidfile, pidperm, out>>
                 /\ \A q \in Pids \ {p} : proc'[q] = proc[q]]_vars

C11_Witness ==
    \E p \in Pids :
        /\ proc[p].cfg.workdir = "file"
        /\ proc[p].pc = "exited"
        /\ proc[p].msg = <<"Error: workdir does not exist", "file">>
        /\ proc[p + 1].pc = "none"

\* C12 (as stated): after a fork has failed, a directory could not be
\* created or a redirection target could not be opened in a start call, no
\* detached process of that call is alive.
C12_NoPartialDaemon ==
    \A p \in Pids :
        proc[p].failed \in {"makedirs", "fork1", "fork2", "stdin", "stdout", "stderr"} =>
            \A q \in Daemons : q \notin Lineage(p) /\ p \notin Lineage(q)

\* C13 (as stated): the delivery of SIGHUP to a process that has a callback
\* for it leaves the process where it was, alive, with the pid file as it
\* was, whatever the callback does.
C13_ReloadKeepsRunning ==
    [][\A p \in Pids :
          proc'[p].hups > proc[p].hups =>
              /\ proc'[p].pc = proc[p].pc
              /\ pidfile' = pidfile]_vars

\* the statements of start, in the order of lines 153-252
Order ==
    <<"makedirs", "fork1", "setsid", "fork2", "writepid", "umask", "chdir",
      "setegid", "seteuid", "signals", "closefds", "stdin", "stdout", "stderr">>
\* those of them a Daemon constructed with cfg runs: setegid and seteuid
\* only for a group and a user that are not None
Steps(cfg) ==
    SelectSeq(Order, LAMBDA x : /\ (x = "setegid" => cfg.group # None)
                                /\ (x = "seteuid" => cfg.user # None))
IsPrefix(a, b) == Len(a) <= Len(b) /\ SubSeq(b, 1, Len(a)) = a
Has(seq, x) == \E i \in 1..Len(seq) : seq[i] = x

\* C14: in every process of a start call the statements completed so far are
\* an initial part of: makedirs, first fork, setsid, second fork, pid-file
\* write, umask(0), chdir(workdir), setegid, seteuid, signal handlers, close
\* loop, stdin, stdout, stderr; and when start has returned all of them are
\* completed, with the umask 0, the working directory workdir and the
\* effective group and user the configured ones.
C14_StepsInOrder ==
    \A p \in Pids :
        proc[p].kind = "start" =>
            /\ IsPrefix(proc[p].done, Steps(proc[p].cfg))
            /\ Returned(p) =>
                  /\ proc[p].done = Steps(proc[p].cfg)
                  /\ proc[p].umask = UMASK
                  /\ proc[p].cwd = "workdir"
                  /\ proc[p].cfg.group # None => proc[p].egid = proc[p].cfg.group
                  /\ proc[p].cfg.user # None => proc[p].euid = proc[p].cfg.user

C14_Witness ==
    \E p \in Pids :
        /\ Returned(p)
        /\ proc[p].done = Order
        /\ proc[p].uid = 0
        /\ proc[p].egid = 1
        /\ proc[p].euid = 1

\* C15: once the close loop has completed, every descriptor the process has
\* open is one of the three standard streams or is not below the limit (the
\* hard limit, MAXFD when that is unlimited), and the standard streams
\* are open; a close failure other than EBADF has ended the process with
\* os._exit(os.EX_OSERR) at once, with no stream redirected.
C15_DescriptorsClosed ==
    \A p \in Pids :
        /\ Has(proc[p].done, "closefds") =>
              /\ \A fd \in proc[p].fds :
                    \/ fd \in StdFds
                    \/ fd >= (IF proc[p].maxfd = RLIM_INFINITY THEN MAXFD
                              ELSE proc[p].maxfd)
              /\ StdFds \subseteq proc[p].fds
        /\ proc[p].failed = "close" =>
              /\ proc[p].pc = "exited"
              /\ proc[p].status = EX_OSERR
              /\ ~Has(proc[p].done, "closefds")
              /\ ~Has(proc[p].done, "stdin")

C15_Witness ==
    \E p \in Pids :
        /\ Returned(p)
        /\ {3, MAXFD - 1, MAXFD} \subseteq proc[p].had
        /\ proc[p].maxfd = RLIM_INFINITY
        /\ proc[p].fds = StdFds \cup {MAXFD}

\* C16: over start, termination and restart, no step shortens or changes
\* what the log file holds: the content before the step is an initial part
\* of the content after it; and every line a daemon wrote is after what the
\* file held when the daemon's start opened it.
C16_NeverTruncates ==
    /\ [](\A p \in Pids :
            proc[p].logat # None =>
                /\ Len(out) >= proc[p].logat
                /\ \A i \in 1..Len(out) : out[i] = p => i > proc[p].logat)
    /\ [][IsPrefix(out, out')]_vars

C16_Witness ==
    \E d1 \in Pids, d2 \in Pids :
        /\ d1 < d2
        /\ out = OldLog \o <<d1, d2>>
        /\ ~Alive(d1)
        /\ Returned(d2)
        /\ proc[d2].logat = Len(OldLog) + 1

\* the pid file a start call found names no running daemon: it was missing,
\* mangled, or left by a process that is gone (readable or not)
NoDaemonFound(p) ==
    proc[p].kind = "start" /\ proc[p].found \in {"absent", "mangled", "stale"}

\* C17 (as stated): a start call that found such a pid file is not stopped
\* by the guard and never fails to overwrite the pid file: once the surviving
\* process has written it, it holds that process's id only.
C17_StaleNeverBlocks ==
    \A p \in Pids :
        NoDaemonFound(p) =>
            /\ ~(proc[p].pc = "exited" /\ Head(proc[p].msg) = "Already running as")
            /\ proc[p].failed # "writepid"
            /\ proc[p].pc = "settle" => pidfile = Str(p)

\* C17 (amended): a start call that found such a pid file is never stopped
\* by the guard; when the pid file can be opened for writing the surviving
\* process overwrites it with its own process id only; a pid file that can
\* be opened neither for reading nor for writing makes that open raise
\* IOError out of start, after both forks, and is left as it was.
C17_StaleNeverStopsAtGuard ==
    \A p \in Pids :
        NoDaemonFound(p) =>
            /\ ~proc[p].probe
            /\ ~(proc[p].pc = "exited" /\ Head(proc[p].msg) = "Already running as")
            /\ proc[p].pc = "settle" => pidfile = Str(p)
            /\ proc[p].failed = "writepid" =>
                  /\ Gen(p) = 2
                  /\ proc[p].pc \in {"raised", "killed"}
                  /\ pidperm = "none"
                  /\ pidfile = Str(BasePid - 1)

C17_Witness ==
    \E p \in Pids :
        /\ NoDaemonFound(p)
        /\ proc[p].found = "stale"
        /\ Returned(p)
        /\ pidperm = "w"
        /\ pidfile = Str(p)

\* the statements of start after the pid-file write
AfterWrite == {"chdir", "setegid", "seteuid", "signals", "close", "stdin", "stdout", "stderr"}

\* C18: the step in which a statement of start after the pid-file write
\* fails leaves the pid file as it is, and the pid file holds the process id
\* of the process in which the statement failed.
C18_NoRollback ==
    [][\A p \in Pids :
          proc[p].failed = "none" /\ proc'[p].failed \in AfterWrite =>
              /\ UNCHANGED <<pidfile, pidperm>>
              /\ pidfile = Str(p)
              /\ ParseInt(pidfile') = [ok |-> TRUE, val |-> p]]_vars

C18_Witness ==
    \E p \in Pids :
        /\ proc[p].failed = "seteuid"
        /\ proc[p].pc = "raised"
        /\ pidfile = Str(p)

\* C19 (as stated): a stop call signals at most one process, the one whose
\* process id is the integer read from the pid file, and never the process
\* that called stop.
C19_StopSignalsOnlyNamed ==
    \A s \in Pids :
        proc[s].kind = "stop" =>
            /\ proc[s].sent \subseteq {proc[s].pidarg}
            /\ s \notin proc[s].sent

\* the process ids of the children of second forks
Survivors == {r + 2 : r \in StartRoots}

\* the stop call has returned after signalling the daemon d, which was
\* started with the default sigmap
Stopped(d) ==
    /\ proc[StopPid].pc = "stop_returned"
    /\ proc[StopPid].sent = {d}
    /\ proc[StopPid].pidarg = d
    /\ Gen(d) = 2
    /\ proc[d].cfg.sigmap = "None"

\* C20: with signals delivered fairly, a daemon started with the default
\* sigmap that a stop call has signalled terminates in the end; and the step
\* in which stop sends the signal and returns ends no process.
C20_StopTerminatesDaemon ==
    /\ \A d \in Survivors : Stopped(d) ~> ~Alive(d)
    /\ [][\A s \in Pids :
             proc[s].pc = "stop_kill" /\ proc'[s].pc = "stop_returned" =>
                 \A d \in Pids : Alive(d) => Alive(d)']_vars

C20_Witness ==
    \E d \in Pids :
        /\ Stopped(d)
        /\ proc[d].pc = "exited"
        /\ proc[d].msg = <<"Terminating on signal", SIGTERM>>

====
